---- MODULE Spec2Model ----
(***************************************************************************)
(* Beads Viewer: the issue store (useIssueStore), the Express backend it   *)
(* talks to, the push channel between them, and the issue side panel.      *)
(*                                                                         *)
(* One HTTP request is a record of the set reqs: the call adds it, the     *)
(* backend handler answers it, and the awaiting continuation of the store  *)
(* method consumes it.  Push messages travel in the FIFO wsQueue.          *)
(***************************************************************************)
EXTENDS Integers, Sequences, FiniteSets, TLC

VARIABLES
    issues,     \* store: issues
    isLoading,  \* store: isLoading
    error,      \* store: error
    reqs,       \* HTTP requests awaited by a store method
    server,     \* the backend's issue list (what `bd list` prints)
    wsQueue,    \* messages broadcast to this client, not yet handled
    now,        \* wall clock, advanced by every backend mutation
    panel,      \* IssueSidePanel: props and useState cells
    calls,      \* history: actions the user has taken
    last,       \* history: the step taken last
    ws,         \* store: ws, the current socket (0: null)
    sockets,    \* readyState of each WebSocket the store has created
    timers,     \* sockets whose onclose has a setTimeout callback pending
    mounted     \* App is mounted: its effect has run, its cleanup has not

\* The push channel's part of the state.
channel == <<ws, sockets, timers, mounted>>

vars == <<issues, isLoading, error, reqs, server, wsQueue, now, panel, calls, last,
          channel>>

-----------------------------------------------------------------------------
(* Bounds *)

MaxCalls == 2       \* mutations the user starts from a view or the modal
MaxGestures == 5    \* clicks and inputs the user makes in the side panel
MaxSockets == 3     \* sockets of the store that are not yet garbage
MaxRetries == 2     \* reconnections the history counts
MaxTime == 2        \* backend mutations in one behaviour
MaxInFlight == 2    \* requests awaited at once
MaxQueue == 2       \* undelivered push messages
MaxCreates == 1     \* issues created during one behaviour

-----------------------------------------------------------------------------
(* Data model *)

Null == "<null>"
NoId == ""

Status == {"open", "in_progress", "blocked", "closed"}
DependencyType == {"blocks", "related", "parent-child", "discovered-from"}

InitialIds == {"a", "b"}
NewIdNames == <<"c", "d", "e">>

\* A title is the sequence of its characters; ids and statuses are strings.
Issue(id, title, status, at, deps) ==
    [id |-> id, title |-> title, status |-> status, updated_at |-> at,
     dependencies |-> deps]

NoIssue == Issue(NoId, <<>>, "open", 0, <<>>)

Dependency(from, to, type) ==
    [issue_id |-> from, depends_on_id |-> to, type |-> type]

\* { ...a, ...b }
Spread(a, b) ==
    [f \in (DOMAIN a) \cup (DOMAIN b) |-> IF f \in DOMAIN b THEN b[f] ELSE a[f]]

IdsOf(list) == {list[i].id : i \in DOMAIN list}

\* issues.some(issue => issue.id === id)
Exists(list, id) == \E i \in DOMAIN list : list[i].id = id

\* issues.find(i => i.id === id)
Find(list, id) ==
    IF Exists(list, id)
    THEN list[CHOOSE i \in DOMAIN list :
                 /\ list[i].id = id
                 /\ \A j \in DOMAIN list : list[j].id = id => i <= j]
    ELSE NoIssue

\* issues.map(issue => issue.id === id ? rec : issue)
MapReplace(list, id, rec) ==
    [i \in DOMAIN list |-> IF list[i].id = id THEN rec ELSE list[i]]

\* issues.filter(issue => issue.id !== id)
FilterOut(list, id) ==
    SelectSeq(list, LAMBDA x : x.id # id)

\* Variant: the insert without the check for the id.
AddIfAbsent_Always(list, rec) == <<rec>> \o list

\* Variant: a record of the id that is there is replaced by the new one.
AddIfAbsent_Upsert(list, rec) ==
    IF Exists(list, rec.id) THEN MapReplace(list, rec.id, rec) ELSE <<rec>> \o list

\* state.issues.some(...) ? state : [rec, ...state.issues]
AddIfAbsent(list, rec) ==
    IF Exists(list, rec.id) THEN list ELSE <<rec>> \o list

Count(list, id) == Cardinality({i \in DOMAIN list : list[i].id = id})

-----------------------------------------------------------------------------
(* HTTP requests, push messages, history *)

\* state: "sent" (not yet handled by the backend), "ok" (2xx response on its
\* way), "fail" (non-2xx response on its way).  from names the caller whose
\* await resumes with the response, closureError the `error` cell that
\* caller's closure holds.  History: quiet says that no other store change
\* has happened since the call, pushed that the message the backend
\* broadcast while handling this request has been handled by the store.
Request(n, kind, id, updates, prev, from) ==
    [n |-> n, kind |-> kind, id |-> id, updates |-> updates,
     prevIssues |-> prev, state |-> "sent", body |-> NoIssue, list |-> <<>>,
     quiet |-> TRUE, pushed |-> FALSE, from |-> from, closureError |-> Null]

NoReq == Request(0, "none", NoId, NoIssue, <<>>, "none")

\* { type, data }.  History: of is the request whose handling broadcast the
\* message (0: another client), confirmed says that the store has applied
\* that request's response.
Message(type, data, of) ==
    [type |-> type, data |-> data, of |-> of, confirmed |-> FALSE]
NoMsg == Message("none", NoIssue, 0)

Step(op, r, m) == [op |-> op, req |-> r, msg |-> m]

FreeSlot ==
    CHOOSE n \in 1..(MaxInFlight + MaxQueue + 1) :
        /\ \A r \in reqs : r.n # n
        /\ \A i \in DOMAIN wsQueue : wsQueue[i].of # n
        /\ \A k \in 1..(n - 1) :
              \/ \E r \in reqs : r.n = k
              \/ \E i \in DOMAIN wsQueue : wsQueue[i].of = k

MarkPushed(R, n) == {IF r.n = n THEN [r EXCEPT !.pushed = TRUE] ELSE r : r \in R}

MarkConfirmed(q, n) ==
    [i \in DOMAIN q |-> IF q[i].of = n THEN [q[i] EXCEPT !.confirmed = TRUE] ELSE q[i]]

CanCall == Cardinality(reqs) < MaxInFlight

CanMutate == CanCall /\ calls < MaxCalls

\* One more click or input in the side panel.
Gesture == calls < MaxGestures /\ calls' = calls + 1

\* Every other awaited request has now seen a store change.
Touch(R) == {[r EXCEPT !.quiet = FALSE] : r \in R}

TouchIf(R, newIssues) == IF newIssues # issues THEN Touch(R) ELSE R

-----------------------------------------------------------------------------
(* IssueSidePanel: the effect that follows a change of `issue` *)

\* The component as mounted by a view, issueId null.  The two text cells
\* hold sequences of characters.
ClosedPanel ==
    [issueId |-> NoId, createMode |-> FALSE, defaultEditMode |-> FALSE,
     isEditing |-> FALSE, isSaving |-> FALSE, error |-> Null,
     editedIssue |-> NoIssue, newDependencyId |-> <<>>,
     newDependencyType |-> "blocks"]

\* useEffect(..., [issue, defaultEditMode, createMode]) after the store put
\* newIssues in place; changed says that issues.find(i => i.id === issueId)
\* now returns another object.
PanelEffect(p, newIssues, changed) ==
    IF ~p.createMode /\ changed /\ p.issueId # NoId /\ Exists(newIssues, p.issueId)
    THEN [p EXCEPT !.editedIssue = Find(newIssues, p.issueId),
                   !.isEditing = p.defaultEditMode,
                   !.error = Null]
    ELSE p

\* map(issue => issue.id === id ? <new object> : issue) gives the panel's
\* issue a new object exactly when id is the panel's issue.
MapChanges(p, list, id) == p.issueId = id /\ Exists(list, id)

\* [rec, ...issues] leaves every object in place.
PrependChanges(p, list, rec) == p.issueId = rec.id /\ ~Exists(list, rec.id)

\* set({ issues: prevIssues }) brings back the objects of the snapshot.
RevertChanges(p, r) ==
    \/ p.issueId = r.id
    \/ Find(r.prevIssues, p.issueId) # Find(issues, p.issueId)

-----------------------------------------------------------------------------
(* Store: fetchIssues *)

NetworkMsg == "Failed to fetch"

\* set({ isLoading: true, error: null }); fetch(`${API_BASE_URL}/issues`)
\* from names the caller: App's mount effect ("store") or the push handler
\* ("refresh").
fetchIssues_start(from) ==
    /\ CanCall
    /\ isLoading' = TRUE
    /\ error' = Null
    /\ reqs' = reqs \cup {Request(FreeSlot, "list", NoId, NoIssue, <<>>, from)}

fetchIssues_call(from, step) ==
    /\ fetchIssues_start(from)
    /\ last' = step
    /\ UNCHANGED <<issues, server, now, panel, calls, channel>>

\* Variant: records the fetched list lacks are kept behind it.
setIssues_Merge(list, fetched) ==
    fetched \o SelectSeq(list, LAMBDA i : ~Exists(fetched, i.id))

\* set({ issues, ... }): the issues field becomes the fetched array.
setIssues(list, fetched) == fetched

\* const issues = await response.json(); set({ issues, isLoading: false })
fetchIssues_ok(r) ==
    /\ r.kind = "list" /\ r.state = "ok"
    /\ issues' = setIssues(issues, r.list)
    /\ isLoading' = FALSE
    /\ reqs' = TouchIf(reqs \ {r}, setIssues(issues, r.list))
    /\ panel' = PanelEffect(panel, setIssues(issues, r.list), TRUE)
    /\ last' = Step("fetchIssues_ok", r, NoMsg)
    /\ UNCHANGED <<error, server, wsQueue, now, calls, channel>>

\* A network failure: the request never reached the backend ("sent") or
\* its response was lost ("ok"); fetch() rejects.
Lost(r) == r.state \in {"sent", "ok"}

\* catch (error) { ... await loadIssues() ... }: the GET of the JSONL file
\* is awaited next.
fetchIssues_fallback(r) ==
    /\ r.kind = "list"
    /\ Lost(r) \/ r.state = "fail"
    /\ reqs' = (reqs \ {r}) \cup
               {[r EXCEPT !.kind = "jsonl", !.state = "sent", !.list = <<>>]}
    /\ last' = Step("call", NoReq, NoMsg)
    /\ UNCHANGED <<issues, isLoading, error, server, wsQueue, now, panel, calls, channel>>

\* loadIssues(): parseJSONL of the file, or [] on any failure (it catches
\* every error and never throws).
loadIssues(fileOk) == IF fileOk THEN server ELSE <<>>

\* set({ issues, isLoading: false }) with the result of loadIssues().
\* History: the step records whether the file could be read.
fetchIssues_loaded(r, fileOk) ==
    /\ r.kind = "jsonl"
    /\ issues' = loadIssues(fileOk)
    /\ isLoading' = FALSE
    /\ reqs' = TouchIf(reqs \ {r}, loadIssues(fileOk))
    /\ panel' = PanelEffect(panel, loadIssues(fileOk), TRUE)
    /\ last' = Step("fetchIssues_loaded",
                    [r EXCEPT !.state = IF fileOk THEN "ok" ELSE "fail"], NoMsg)
    /\ UNCHANGED <<error, server, wsQueue, now, calls, channel>>

-----------------------------------------------------------------------------
(* IssueSidePanel: what runs when the awaited store call settles *)

\* The onClose prop: () => setSelectedIssueId(null) of a view,
\* () => setIsCreateMode(false) of App.
onClose(p) == [p EXCEPT !.issueId = NoId, !.createMode = FALSE]

\* handleSave after `await updateIssue(...)`, then the handler that awaited
\* handleSave: handleBackdropClick closes when its closed-over error is
\* null, handleEscape closes after any save that did not throw.  After
\* `await createIssue(...)` (the Create button) handleSave itself closes.
PanelResume(p, r, ok, msg) ==
    IF r.from \notin {"backdrop", "escape", "create"} THEN p
    ELSE IF r.from = "create"
    THEN IF ok THEN [onClose(p) EXCEPT !.isSaving = FALSE]
         ELSE [p EXCEPT !.error = msg, !.isSaving = FALSE]
    ELSE IF ok
    THEN [p EXCEPT !.isEditing = FALSE, !.isSaving = FALSE,
                   !.issueId = IF r.from = "escape" \/ r.closureError = Null
                               THEN NoId ELSE @]
    ELSE [p EXCEPT !.error = msg, !.isSaving = FALSE]

\* The effect and the resumed handler both write the panel's cells; React
\* may flush the effect before or after the continuation.
PanelAfter(p, newIssues, changed, r, ok, msg) ==
    {PanelResume(PanelEffect(p, newIssues, changed), r, ok, msg),
     PanelEffect(PanelResume(p, r, ok, msg), newIssues, changed)}

-----------------------------------------------------------------------------
(* Store: createIssue *)

CreateMsg == "Failed to create issue"

\* fetch(`${API_BASE_URL}/issues`, { method: 'POST', body: issueData })
createIssue_start(issueData, from) ==
    /\ CanCall
    /\ reqs' = reqs \cup {Request(FreeSlot, "create", NoId, issueData, <<>>, from)}
    /\ UNCHANGED <<issues, isLoading, error, server, wsQueue, now, channel>>

createIssue_call(issueData, from) ==
    /\ createIssue_start(issueData, from)
    /\ calls < MaxCalls
    /\ calls' = calls + 1
    /\ last' = Step("call", NoReq, NoMsg)
    /\ UNCHANGED panel

\* newIssue = await response.json(); add unless the id is there already
createIssue_ok(r) ==
    /\ r.kind = "create" /\ r.state = "ok"
    /\ issues' = AddIfAbsent(issues, r.body)
    /\ reqs' = TouchIf(reqs \ {r}, AddIfAbsent(issues, r.body))
    /\ panel' \in PanelAfter(panel, AddIfAbsent(issues, r.body),
                             PrependChanges(panel, issues, r.body), r, TRUE, Null)
    /\ last' = Step("createIssue_ok", r, NoMsg)
    /\ UNCHANGED <<isLoading, error, server, now, calls, channel>>
    /\ wsQueue' = MarkConfirmed(wsQueue, r.n)

\* catch (error) { set({ error: ... }); throw error }
createIssue_catch(r) ==
    /\ r.kind = "create"
    /\ Lost(r) \/ r.state = "fail"
    /\ error' = IF Lost(r) THEN NetworkMsg ELSE CreateMsg
    /\ reqs' = reqs \ {r}
    /\ panel' = PanelResume(panel, r, FALSE,
                            IF Lost(r) THEN NetworkMsg ELSE CreateMsg)
    /\ last' = Step("createIssue_catch", r, NoMsg)
    /\ UNCHANGED <<issues, isLoading, server, wsQueue, now, calls, channel>>

-----------------------------------------------------------------------------
(* Store: updateIssue, deleteIssue *)

UpdateMsg == "Failed to update issue"
CloseMsg == "Failed to close issue"

\* issue.id === id ? { ...issue, ...updates, updated_at: new Date() } : issue
OptimisticUpdate(list, id, updates) ==
    [i \in DOMAIN list |->
        IF list[i].id = id
        THEN Spread(Spread(list[i], updates), [updated_at |-> now])
        ELSE list[i]]

\* Variant: the optimistic step takes the record out of the list.
OptimisticClose_Remove(list, id) == FilterOut(list, id)

\* issue.id === id ? { ...issue, status: 'closed' } : issue
OptimisticClose(list, id) ==
    [i \in DOMAIN list |->
        IF list[i].id = id THEN Spread(list[i], [status |-> "closed"])
        ELSE list[i]]

\* The store part of a call: snapshot, optimistic set, request.
updateIssue_call(id, updates, from, closureError) ==
    /\ CanCall
    /\ issues' = OptimisticUpdate(issues, id, updates)
    /\ reqs' = TouchIf(reqs, OptimisticUpdate(issues, id, updates)) \cup
               {[Request(FreeSlot, "update", id, updates, issues, from)
                   EXCEPT !.closureError = closureError]}
    /\ UNCHANGED <<isLoading, error, server, wsQueue, now, channel>>

deleteIssue_call(id) ==
    /\ CanMutate
    /\ calls' = calls + 1
    /\ issues' = OptimisticClose(issues, id)
    /\ reqs' = TouchIf(reqs, OptimisticClose(issues, id)) \cup
               {Request(FreeSlot, "close", id, NoIssue, issues, "ui")}
    /\ panel' = PanelEffect(panel, OptimisticClose(issues, id),
                            MapChanges(panel, issues, id))
    /\ last' = Step("call", NoReq, NoMsg)
    /\ UNCHANGED <<isLoading, error, server, wsQueue, now, channel>>

\* Variant: the response is dropped, the list stays as it is.
Confirm_Skip(list, r) == list

\* Update with server response:
\* issues.map(issue => issue.id === id ? updatedIssue : issue)
Confirm(list, r) == MapReplace(list, r.id, r.body)

updateIssue_ok(r) ==
    /\ r.kind = "update" /\ r.state = "ok"
    /\ issues' = Confirm(issues, r)
    /\ reqs' = TouchIf(reqs \ {r}, Confirm(issues, r))
    /\ panel' \in PanelAfter(panel, Confirm(issues, r),
                             MapChanges(panel, issues, r.id), r, TRUE, Null)
    /\ last' = Step("updateIssue_ok", r, NoMsg)
    /\ UNCHANGED <<isLoading, error, server, now, calls, channel>>
    /\ wsQueue' = MarkConfirmed(wsQueue, r.n)

deleteIssue_ok(r) ==
    /\ r.kind = "close" /\ r.state = "ok"
    /\ issues' = Confirm(issues, r)
    /\ reqs' = TouchIf(reqs \ {r}, Confirm(issues, r))
    /\ panel' = PanelEffect(panel, Confirm(issues, r),
                            MapChanges(panel, issues, r.id))
    /\ last' = Step("deleteIssue_ok", r, NoMsg)
    /\ UNCHANGED <<isLoading, error, server, now, calls, channel>>
    /\ wsQueue' = MarkConfirmed(wsQueue, r.n)

\* Variant: the branch throws without restoring the snapshot.
Revert_Keep(list, r) == list

\* Variant: only the record of the request's id is put back.
Revert_OnlyX(list, r) == MapReplace(list, r.id, Find(r.prevIssues, r.id))

\* if (!response.ok) { set({ issues: prevIssues }); throw ... }
Revert(list, r) == r.prevIssues

\* ... catch (error) { set({ error: error.message }); throw error }
updateIssue_revert(r) ==
    /\ r.kind = "update" /\ r.state = "fail"
    /\ issues' = Revert(issues, r)
    /\ error' = UpdateMsg
    /\ reqs' = TouchIf(reqs \ {r}, Revert(issues, r))
    /\ panel' \in PanelAfter(panel, Revert(issues, r), RevertChanges(panel, r),
                             r, FALSE, UpdateMsg)
    /\ last' = Step("updateIssue_revert", r, NoMsg)
    /\ UNCHANGED <<isLoading, server, wsQueue, now, calls, channel>>

deleteIssue_revert(r) ==
    /\ r.kind = "close" /\ r.state = "fail"
    /\ issues' = Revert(issues, r)
    /\ error' = CloseMsg
    /\ reqs' = TouchIf(reqs \ {r}, Revert(issues, r))
    /\ panel' = PanelEffect(panel, Revert(issues, r), RevertChanges(panel, r))
    /\ last' = Step("deleteIssue_revert", r, NoMsg)
    /\ UNCHANGED <<isLoading, server, wsQueue, now, calls, channel>>

\* fetch() rejects: control goes to the catch block straight from the await,
\* past the `if (!response.ok)` branch that holds the revert.
Rejected(list, r) == list

updateIssue_catch(r) ==
    /\ r.kind = "update" /\ Lost(r)
    /\ issues' = Rejected(issues, r)
    /\ error' = NetworkMsg
    /\ reqs' = TouchIf(reqs \ {r}, Rejected(issues, r))
    /\ panel' = PanelResume(panel, r, FALSE, NetworkMsg)
    /\ last' = Step("updateIssue_catch", r, NoMsg)
    /\ UNCHANGED <<isLoading, server, wsQueue, now, calls, channel>>

deleteIssue_catch(r) ==
    /\ r.kind = "close" /\ Lost(r)
    /\ issues' = Rejected(issues, r)
    /\ error' = NetworkMsg
    /\ reqs' = TouchIf(reqs \ {r}, Rejected(issues, r))
    /\ last' = Step("deleteIssue_catch", r, NoMsg)
    /\ UNCHANGED <<isLoading, server, wsQueue, now, panel, calls, channel>>

\* updateStatus: (id, status) => get().updateIssue(id, { status })
updateStatus(id, status) ==
    /\ calls < MaxCalls
    /\ calls' = calls + 1
    /\ updateIssue_call(id, [status |-> status], "kanban", Null)
    /\ panel' = PanelEffect(panel, OptimisticUpdate(issues, id, [status |-> status]),
                            MapChanges(panel, issues, id))
    /\ last' = Step("call", NoReq, NoMsg)

-----------------------------------------------------------------------------
(* Backend: src/server/index.ts over the bd CLI *)

\* broadcast(message): this client's socket is OPEN
broadcast(m) ==
    /\ Len(wsQueue) < MaxQueue
    /\ wsQueue' = Append(wsQueue, m)

Respond(r, state, body, list) ==
    reqs' = (reqs \ {r}) \cup
            {[r EXCEPT !.state = state, !.body = body, !.list = list]}

\* bd.updateIssue: --title and --status are passed only when truthy;
\* description and dependencies are never passed.
bdUpdate(rec, updates) ==
    [rec EXCEPT
        !.title = IF "title" \in DOMAIN updates /\ updates.title # <<>>
                  THEN updates.title ELSE @,
        !.status = IF "status" \in DOMAIN updates THEN updates.status ELSE @,
        !.updated_at = now + 1]

\* bd.closeIssue
bdClose(rec) == [rec EXCEPT !.status = "closed", !.updated_at = now + 1]

\* bd.createIssue: the CLI picks the id
bdCreate(data) ==
    Issue(NewIdNames[Len(server) - Cardinality(InitialIds) + 1],
          data.title, "open", now + 1, <<>>)

\* app.get('/api/issues')
srv_list(r) ==
    /\ r.kind = "list" /\ r.state = "sent"
    /\ Respond(r, "ok", NoIssue, server)
    /\ last' = Step("backend", NoReq, NoMsg)
    /\ UNCHANGED <<issues, isLoading, error, server, wsQueue, now, panel, calls, channel>>

\* the catch block of a route: res.status(500)
srv_fail(r) ==
    /\ r.kind \in {"list", "create", "update", "close"} /\ r.state = "sent"
    /\ Respond(r, "fail", NoIssue, <<>>)
    /\ last' = Step("backend", NoReq, NoMsg)
    /\ UNCHANGED <<issues, isLoading, error, server, wsQueue, now, panel, calls, channel>>

\* app.post('/api/issues')
srv_create(r) ==
    /\ r.kind = "create" /\ r.state = "sent"
    /\ now < MaxTime
    /\ Len(server) - Cardinality(InitialIds) < MaxCreates
    /\ server' = Append(server, bdCreate(r.updates))
    /\ broadcast(Message("issue:created", bdCreate(r.updates), r.n))
    /\ Respond(r, "ok", bdCreate(r.updates), <<>>)
    /\ now' = now + 1
    /\ last' = Step("backend", NoReq, NoMsg)
    /\ UNCHANGED <<issues, isLoading, error, panel, calls, channel>>

\* app.patch('/api/issues/:id')
srv_update(r) ==
    /\ r.kind = "update" /\ r.state = "sent"
    /\ now < MaxTime
    /\ Exists(server, r.id)
    /\ server' = MapReplace(server, r.id, bdUpdate(Find(server, r.id), r.updates))
    /\ broadcast(Message("issue:updated", bdUpdate(Find(server, r.id), r.updates), r.n))
    /\ Respond(r, "ok", bdUpdate(Find(server, r.id), r.updates), <<>>)
    /\ now' = now + 1
    /\ last' = Step("backend", NoReq, NoMsg)
    /\ UNCHANGED <<issues, isLoading, error, panel, calls, channel>>

\* app.delete('/api/issues/:id')
srv_close(r) ==
    /\ r.kind = "close" /\ r.state = "sent"
    /\ now < MaxTime
    /\ Exists(server, r.id)
    /\ server' = MapReplace(server, r.id, bdClose(Find(server, r.id)))
    /\ broadcast(Message("issue:updated", bdClose(Find(server, r.id)), r.n))
    /\ Respond(r, "ok", bdClose(Find(server, r.id)), <<>>)
    /\ now' = now + 1
    /\ last' = Step("backend", NoReq, NoMsg)
    /\ UNCHANGED <<issues, isLoading, error, panel, calls, channel>>

\* app.patch handling the request of another client
remoteUpdate(id, status) ==
    /\ now < MaxTime
    /\ Exists(server, id)
    /\ server' = MapReplace(server, id, bdUpdate(Find(server, id), [status |-> status]))
    /\ broadcast(Message("issue:updated", bdUpdate(Find(server, id), [status |-> status]), 0))
    /\ now' = now + 1
    /\ last' = Step("backend", NoReq, NoMsg)
    /\ UNCHANGED <<issues, isLoading, error, reqs, panel, calls, channel>>

\* startFileWatcher: the bd CLI, run outside the server, rewrote issues.jsonl
externalChange(id, status) ==
    /\ now < MaxTime
    /\ Exists(server, id)
    /\ server' = MapReplace(server, id, bdUpdate(Find(server, id), [status |-> status]))
    /\ broadcast(Message("issues:refresh", NoIssue, 0))
    /\ now' = now + 1
    /\ last' = Step("backend", NoReq, NoMsg)
    /\ UNCHANGED <<issues, isLoading, error, reqs, panel, calls, channel>>

-----------------------------------------------------------------------------
(* Store: ws.onmessage *)

\* Variant: issue:created inserts whatever the list holds.
Reconcile_Insert(list, m) ==
    IF m.type = "issue:created" THEN <<m.data>> \o list ELSE list

\* Variant: issue:updated puts its record in front of the list.
Reconcile_Upsert(list, m) ==
    IF m.type = "issue:updated" THEN <<m.data>> \o list ELSE list

\* the set(state => ...) of each message type that carries a record
Reconcile(list, m) ==
    CASE m.type = "issue:created" -> AddIfAbsent(list, m.data)
      [] m.type = "issue:updated" -> MapReplace(list, m.data.id, m.data)
      [] m.type = "issue:deleted" -> FilterOut(list, m.data.id)
      [] OTHER -> list

ReconcileChanges(p, list, m) ==
    CASE m.type = "issue:created" -> PrependChanges(p, list, m.data)
      [] m.type = "issue:updated" -> MapChanges(p, list, m.data.id)
      [] OTHER -> FALSE

onmessage ==
    /\ wsQueue # <<>>
    /\ wsQueue' = Tail(wsQueue)
    /\ LET m == Head(wsQueue) IN
       IF m.type = "issues:refresh"
       THEN fetchIssues_call("refresh", Step("onmessage", NoReq, m))
       ELSE /\ issues' = Reconcile(issues, m)
            /\ reqs' = MarkPushed(TouchIf(reqs, Reconcile(issues, m)), m.of)
            /\ panel' = PanelEffect(panel, Reconcile(issues, m),
                                    ReconcileChanges(panel, issues, m))
            /\ last' = Step("onmessage", NoReq, m)
            /\ UNCHANGED <<isLoading, error, server, now, calls, channel>>

-----------------------------------------------------------------------------
(* The application around the store *)

\* A slot of sockets holds one WebSocket object from `new WebSocket` until
\* nothing refers to it any more: it is closed, its timer has run and the
\* store's ws is another socket.  Such a slot reads "CLOSED" and is taken by
\* the next socket created.
SocketIds == 1..MaxSockets

\* The pure functions run with no application around them.
NoChannel ==
    /\ ws = 0
    /\ sockets = [s \in SocketIds |-> "CLOSED"]
    /\ timers = {}
    /\ mounted = FALSE

\* What `bd list --json` prints when the application starts: a is blocked
\* by b, and b keeps an edge to an issue that is not in the list.
InitialServer ==
    <<Issue("a", <<"t">>, "open", 0, <<Dependency("a", "b", "blocks")>>),
      Issue("b", <<"t">>, "open", 0, <<Dependency("b", "z", "related")>>)>>

\* The store as created, after App's mount effect has run:
\* fetchIssues() has sent its GET, connectWebSocket() has opened the socket.
Init ==
    /\ issues = <<>>
    /\ isLoading = TRUE
    /\ error = Null
    /\ reqs = {Request(1, "list", NoId, NoIssue, <<>>, "store")}
    /\ server = InitialServer
    /\ wsQueue = <<>>
    /\ now = 0
    /\ panel = ClosedPanel
    /\ calls = 0
    /\ last = Step("call", NoReq, NoMsg)
    /\ ws = 1
    /\ sockets = [s \in SocketIds |-> IF s = 1 THEN "OPEN" ELSE "CLOSED"]
    /\ timers = {}
    /\ mounted = TRUE

\* The columns a card is dropped on, and the statuses other writers set.
DropStatus == {"in_progress", "closed"}
RemoteStatus == {"blocked"}

\* KanbanBoard.handleDragEnd: the card's issue is in the store and is
\* dropped on another column.
handleDragEnd ==
    \E id \in IdsOf(issues), newStatus \in DropStatus :
        /\ Find(issues, id).status # newStatus
        /\ updateStatus(id, newStatus)

deleteIssue ==
    \E id \in IdsOf(issues) : deleteIssue_call(id)

\* CreateIssueModal.handleSubmit
createIssue ==
    createIssue_call([title |-> <<"t">>, status |-> "open"], "modal")

\* App renders the views, the header and the panels only past its two
\* early returns: the loading screen and the error screen.
UiReady ==
    /\ ~(isLoading /\ issues = <<>>)
    /\ error = Null

Next ==
    \/ UiReady /\ handleDragEnd
    \/ UiReady /\ deleteIssue
    \/ UiReady /\ createIssue
    \/ \E r \in reqs : srv_list(r)
    \/ \E r \in reqs : srv_fail(r)
    \/ \E r \in reqs : srv_create(r)
    \/ \E r \in reqs : srv_update(r)
    \/ \E r \in reqs : srv_close(r)
    \/ \E id \in IdsOf(server), st \in RemoteStatus : remoteUpdate(id, st)
    \/ \E id \in IdsOf(server), st \in RemoteStatus : externalChange(id, st)
    \/ \E r \in reqs : fetchIssues_ok(r)
    \/ \E r \in reqs : fetchIssues_fallback(r)
    \/ \E r \in reqs, fileOk \in BOOLEAN : fetchIssues_loaded(r, fileOk)
    \/ \E r \in reqs : createIssue_ok(r)
    \/ \E r \in reqs : createIssue_catch(r)
    \/ \E r \in reqs : updateIssue_ok(r)
    \/ \E r \in reqs : updateIssue_revert(r)
    \/ \E r \in reqs : updateIssue_catch(r)
    \/ \E r \in reqs : deleteIssue_ok(r)
    \/ \E r \in reqs : deleteIssue_revert(r)
    \/ \E r \in reqs : deleteIssue_catch(r)
    \/ onmessage

Spec == Init /\ [][Next]_vars

\* The same application against a backend that is reachable and never
\* fails: every request is answered 2xx and every response arrives.
NextSync ==
    \/ UiReady /\ handleDragEnd
    \/ UiReady /\ deleteIssue
    \/ UiReady /\ createIssue
    \/ \E r \in reqs : srv_list(r)
    \/ \E r \in reqs : srv_create(r)
    \/ \E r \in reqs : srv_update(r)
    \/ \E r \in reqs : srv_close(r)
    \/ \E id \in IdsOf(server), st \in RemoteStatus : remoteUpdate(id, st)
    \/ \E id \in IdsOf(server), st \in RemoteStatus : externalChange(id, st)
    \/ \E r \in reqs : fetchIssues_ok(r)
    \/ \E r \in reqs : createIssue_ok(r)
    \/ \E r \in reqs : updateIssue_ok(r)
    \/ \E r \in reqs : deleteIssue_ok(r)
    \/ onmessage

SpecSync == Init /\ [][NextSync]_vars

-----------------------------------------------------------------------------
(* IssueSidePanel: the handlers *)

TitleMsg == "Title is required"
DuplicateMsg == "Dependency already exists"

\* `Issue ${newDependencyId.trim()} not found`
NotFoundMsg(id) == "Issue " \o id \o " not found"

IsSpace(c) == c = " "

RECURSIVE TrimStart(_)
TrimStart(s) ==
    IF s # <<>> /\ IsSpace(Head(s)) THEN TrimStart(Tail(s)) ELSE s

RECURSIVE TrimEnd(_)
TrimEnd(s) ==
    IF s # <<>> /\ IsSpace(s[Len(s)])
    THEN TrimEnd(SubSeq(s, 1, Len(s) - 1)) ELSE s

\* Variant: the text as typed.
Trim_AsTyped(s) == s

\* String.prototype.trim
Trim(s) == TrimEnd(TrimStart(s))

\* The string a sequence of characters spells: ids are strings.
RECURSIVE Str(_)
Str(s) == IF s = <<>> THEN "" ELSE Head(s) \o Str(Tail(s))

\* History of a dependency handler: the trimmed id it was given, the type,
\* and the cells as they were before it ran.
PanelStep(op, target, type, before) ==
    [op |-> op, req |-> NoReq, msg |-> NoMsg,
     target |-> target, type |-> type, before |-> before]

\* The component renders past its two `return null`: editedIssue is set and
\* issues.find(i => i.id === issueId) finds the issue.
Rendered(p) ==
    /\ p.editedIssue # NoIssue
    /\ p.createMode \/ (p.issueId # NoId /\ Exists(issues, p.issueId))

\* A view's onClick / onIssueClick: setSelectedIssueId(id).  dm is the
\* defaultEditMode the view passes; the panel of another view is another
\* instance, with the cells as mounted.
openPanel(id, dm) ==
    /\ panel.issueId = NoId
    /\ Exists(issues, id)
    /\ panel' = PanelEffect(
                   [(IF dm = panel.defaultEditMode THEN panel ELSE ClosedPanel)
                       EXCEPT !.issueId = id, !.defaultEditMode = dm],
                   issues, TRUE)
    /\ last' = Step("openPanel", NoReq, NoMsg)
    /\ Gesture
    /\ UNCHANGED <<issues, isLoading, error, reqs, server, wsQueue, now, channel>>

\* The Edit button: onClick={() => setIsEditing(true)}
clickEdit ==
    /\ Rendered(panel) /\ ~panel.isEditing
    /\ panel' = [panel EXCEPT !.isEditing = TRUE]
    /\ last' = Step("clickEdit", NoReq, NoMsg)
    /\ Gesture
    /\ UNCHANGED <<issues, isLoading, error, reqs, server, wsQueue, now, channel>>

\* The title input: setEditedIssue({ ...editedIssue, title: e.target.value })
setTitle(text) ==
    /\ Rendered(panel) /\ panel.isEditing
    /\ panel.editedIssue.title # text
    /\ panel' = [panel EXCEPT !.editedIssue = Spread(@, [title |-> text])]
    /\ last' = Step("setTitle", NoReq, NoMsg)
    /\ Gesture
    /\ UNCHANGED <<issues, isLoading, error, reqs, server, wsQueue, now, channel>>

\* The id input of the add form: setNewDependencyId(e.target.value)
setNewDependencyId(text) ==
    /\ Rendered(panel) /\ panel.isEditing
    /\ panel.newDependencyId # text
    /\ panel' = [panel EXCEPT !.newDependencyId = text]
    /\ last' = Step("setNewDependencyId", NoReq, NoMsg)
    /\ Gesture
    /\ UNCHANGED <<issues, isLoading, error, reqs, server, wsQueue, now, channel>>

\* The select of the add form: setNewDependencyType(e.target.value)
setNewDependencyType(type) ==
    /\ Rendered(panel) /\ panel.isEditing
    /\ panel.newDependencyType # type
    /\ panel' = [panel EXCEPT !.newDependencyType = type]
    /\ last' = Step("setNewDependencyType", NoReq, NoMsg)
    /\ Gesture
    /\ UNCHANGED <<issues, isLoading, error, reqs, server, wsQueue, now, channel>>

\* Variant: no edge counts as a duplicate.
IsDuplicate_Never(deps, target) == FALSE

\* existingDeps.some(d => d.depends_on_id === newDependencyId.trim())
IsDuplicate(deps, target) ==
    \E i \in DOMAIN deps : deps[i].depends_on_id = target

\* Variant: every id is taken to name an issue.
TargetIssue_Any(list, target) == Issue(target, <<"t">>, "open", 0, <<>>)

\* issues.find(i => i.id === newDependencyId.trim())
TargetIssue(list, target) == Find(list, target)

\* The cells after handleAddDependency has run.
AddDependency(p, list) ==
    LET target == Str(Trim(p.newDependencyId))
        existingDeps == p.editedIssue.dependencies
    IN  IF target = "" THEN p
        ELSE IF IsDuplicate(existingDeps, target)
        THEN [p EXCEPT !.error = DuplicateMsg]
        ELSE IF TargetIssue(list, target) = NoIssue
        THEN [p EXCEPT !.error = NotFoundMsg(target)]
        ELSE [p EXCEPT
                 !.editedIssue = Spread(@, [dependencies |->
                     Append(existingDeps,
                            Dependency(p.issueId, target, p.newDependencyType))]),
                 !.newDependencyId = <<>>,
                 !.error = Null]

\* The Add button and the Enter key of the add form
handleAddDependency ==
    /\ Rendered(panel) /\ panel.isEditing
    /\ panel' = AddDependency(panel, issues)
    /\ last' = PanelStep("handleAddDependency",
                         Str(Trim(panel.newDependencyId)),
                         panel.newDependencyType, panel)
    /\ Gesture
    /\ UNCHANGED <<issues, isLoading, error, reqs, server, wsQueue, now, channel>>

\* dependencies.filter(d => d.depends_on_id !== dependsOnId)
RemoveDependency(deps, dependsOnId) ==
    SelectSeq(deps, LAMBDA d : d.depends_on_id # dependsOnId)

\* The remove button of one listed edge
handleRemoveDependency(dependsOnId) ==
    /\ Rendered(panel) /\ panel.isEditing
    /\ panel' = [panel EXCEPT !.editedIssue = Spread(@, [dependencies |->
                     RemoveDependency(panel.editedIssue.dependencies, dependsOnId)])]
    /\ last' = PanelStep("handleRemoveDependency", dependsOnId, "", panel)
    /\ Gesture
    /\ UNCHANGED <<issues, isLoading, error, reqs, server, wsQueue, now, channel>>

\* handleSave up to its await: the title check, then
\* setError(null); setIsSaving(true); and createIssue(editedIssue) in create
\* mode, updateIssue(issue.id, editedIssue) otherwise
handleSave(from) ==
    IF Trim(panel.editedIssue.title) = <<>>
    THEN /\ panel' = [panel EXCEPT !.error = TitleMsg]
         /\ last' = Step("handleSave", NoReq, NoMsg)
         /\ Gesture
         /\ UNCHANGED <<issues, isLoading, error, reqs, server, wsQueue, now, channel>>
    ELSE IF panel.createMode
    THEN /\ createIssue_start(panel.editedIssue, from)
         /\ panel' = [panel EXCEPT !.error = Null, !.isSaving = TRUE]
         /\ last' = Step("handleSave", NoReq, NoMsg)
         /\ Gesture
    ELSE /\ updateIssue_call(panel.issueId, panel.editedIssue, from, panel.error)
         /\ panel' = PanelEffect(
                        [panel EXCEPT !.error = Null, !.isSaving = TRUE],
                        OptimisticUpdate(issues, panel.issueId, panel.editedIssue),
                        TRUE)
         /\ last' = Step("handleSave", NoReq, NoMsg)
         /\ Gesture

closePanel ==
    /\ panel' = onClose(panel)
    /\ last' = Step("onClose", NoReq, NoMsg)
    /\ Gesture
    /\ UNCHANGED <<issues, isLoading, error, reqs, server, wsQueue, now, channel>>

\* The backdrop and the X button
handleBackdropClick ==
    /\ Rendered(panel)
    /\ IF ~panel.createMode /\ panel.isEditing
       THEN handleSave("backdrop") ELSE closePanel

\* keydown Escape
handleEscape ==
    /\ Rendered(panel)
    /\ IF ~panel.createMode /\ panel.isEditing
       THEN handleSave("escape") ELSE closePanel

\* What the user types into the title input and into the id input of the
\* add form, and the issues whose cards the user clicks.
TitleTexts == {<<" ">>}
DependencyTexts == {<<"a">>, <<" ", "b", " ">>, <<"z">>}
TypeChoices == {"blocks", "related"}

TargetsOf(deps) == {deps[i].depends_on_id : i \in DOMAIN deps}

\* The application with the user working in the side panel of a view.
NextPanel ==
    \/ \E r \in reqs : srv_list(r)
    \/ \E r \in reqs : fetchIssues_ok(r)
    \/ UiReady /\ \E id \in IdsOf(issues), dm \in BOOLEAN : openPanel(id, dm)
    \/ UiReady /\ clickEdit
    \/ UiReady /\ \E text \in TitleTexts : setTitle(text)
    \/ UiReady /\ \E text \in DependencyTexts : setNewDependencyId(text)
    \/ UiReady /\ \E type \in TypeChoices : setNewDependencyType(type)
    \/ UiReady /\ handleAddDependency
    \/ UiReady /\ \E id \in TargetsOf(panel.editedIssue.dependencies) :
                      handleRemoveDependency(id)
    \/ UiReady /\ handleBackdropClick
    \/ UiReady /\ handleEscape
    \/ \E r \in reqs : srv_update(r)
    \/ \E r \in reqs : r.kind = "update" /\ srv_fail(r)
    \/ \E r \in reqs : updateIssue_ok(r)
    \/ \E r \in reqs : updateIssue_revert(r)
    \/ \E r \in reqs : updateIssue_catch(r)
    \/ onmessage

SpecPanel == Init /\ [][NextPanel]_vars

-----------------------------------------------------------------------------
(* IssueSidePanel in create mode, and the ways a save is started *)

\* The record the effect puts into editedIssue in create mode:
\* { title: '', status: 'open', ... }, with no id.
BlankIssue == [title |-> <<>>, status |-> "open"]

\* Header's onCreateIssue: () => setIsCreateMode(true), then the effect of
\* App's panel: setEditedIssue({...}); setIsEditing(true); setError(null)
openCreate ==
    /\ panel.issueId = NoId /\ ~panel.createMode
    /\ panel' = [ClosedPanel EXCEPT !.createMode = TRUE, !.isEditing = TRUE,
                                    !.editedIssue = BlankIssue]
    /\ last' = Step("openCreate", NoReq, NoMsg)
    /\ Gesture
    /\ UNCHANGED <<issues, isLoading, error, reqs, server, wsQueue, now, channel>>

\* disabled={isSaving || !editedIssue.title?.trim()}
CreateDisabled(p) == p.isSaving \/ Trim(p.editedIssue.title) = <<>>

\* A click on the Create Issue button of the footer: onClick={handleSave},
\* which a disabled button does not deliver.
clickCreate ==
    /\ Rendered(panel) /\ panel.createMode
    /\ IF CreateDisabled(panel)
       THEN /\ last' = Step("clickCreate", NoReq, NoMsg)
            /\ Gesture
            /\ UNCHANGED <<issues, isLoading, error, reqs, server, wsQueue, now,
                           panel, channel>>
       ELSE handleSave("create")

\* What the user types into the title input in this part.
SaveTitleTexts == {<<" ">>, <<" ", "n">>}

\* The application with the user creating issues and editing titles in the
\* side panel.  A view behind an open panel's backdrop takes no click.
NextSave ==
    \/ \E r \in reqs : srv_list(r)
    \/ \E r \in reqs : fetchIssues_ok(r)
    \/ UiReady /\ ~panel.createMode
               /\ \E id \in IdsOf(issues), dm \in BOOLEAN : openPanel(id, dm)
    \/ UiReady /\ openCreate
    \/ UiReady /\ clickEdit
    \/ UiReady /\ \E text \in SaveTitleTexts : setTitle(text)
    \/ UiReady /\ handleBackdropClick
    \/ UiReady /\ handleEscape
    \/ UiReady /\ clickCreate
    \/ \E r \in reqs : srv_create(r)
    \/ \E r \in reqs : srv_update(r)
    \/ \E r \in reqs : r.kind \in {"create", "update"} /\ srv_fail(r)
    \/ \E r \in reqs : createIssue_ok(r)
    \/ \E r \in reqs : createIssue_catch(r)
    \/ \E r \in reqs : updateIssue_ok(r)
    \/ \E r \in reqs : updateIssue_revert(r)
    \/ \E r \in reqs : updateIssue_catch(r)
    \/ onmessage

SpecSave == Init /\ [][NextSave]_vars

-----------------------------------------------------------------------------
(* Store: connectWebSocket, disconnectWebSocket; App's mount effect *)

\* Slots the next `new WebSocket` may take, given the timers T still pending.
FreeSockets(T) == {s \in SocketIds : sockets[s] = "CLOSED" /\ s \notin T}

\* const ws = new WebSocket(wsUrl); ...handlers...; set({ ws })
connectWebSocket(T) ==
    /\ FreeSockets(T) # {}
    /\ LET s == CHOOSE s \in FreeSockets(T) : \A t \in FreeSockets(T) : s <= t
       IN /\ sockets' = [sockets EXCEPT ![s] = "CONNECTING"]
          /\ ws' = s

\* WebSocket.close(): a socket that is connecting or open starts closing,
\* one that is closing or closed stays as it is.
close(readyState) ==
    IF readyState \in {"CONNECTING", "OPEN"} THEN "CLOSING" ELSE readyState

\* const { ws } = get(); if (ws) { ws.close(); set({ ws: null }) }
disconnectWebSocket ==
    IF ws # 0
    THEN /\ sockets' = [sockets EXCEPT ![ws] = close(@)]
         /\ ws' = 0
    ELSE UNCHANGED <<ws, sockets>>

\* App's effect: fetchIssues(); connectWebSocket()
App_mount ==
    /\ ~mounted
    /\ mounted' = TRUE
    /\ fetchIssues_start("store")
    /\ connectWebSocket(timers)
    /\ last' = Step("mount", NoReq, NoMsg)
    /\ UNCHANGED <<issues, server, wsQueue, now, panel, calls, timers>>

\* The effect's cleanup: () => disconnectWebSocket()
App_unmount ==
    /\ mounted
    /\ mounted' = FALSE
    /\ disconnectWebSocket
    /\ last' = Step("unmount", NoReq, NoMsg)
    /\ UNCHANGED <<issues, isLoading, error, reqs, server, wsQueue, now, panel,
                   calls, timers>>

\* ws.onopen: the server has accepted the connection.
onopen(s) ==
    /\ sockets[s] = "CONNECTING"
    /\ sockets' = [sockets EXCEPT ![s] = "OPEN"]
    /\ last' = Step("onopen", NoReq, NoMsg)
    /\ UNCHANGED <<issues, isLoading, error, reqs, server, wsQueue, now, panel,
                   calls, ws, timers, mounted>>

\* ws.onclose: the connection could not be made, was lost, or the closing
\* handshake is done.  setTimeout(() => {...}, WS_RECONNECT_DELAY)
onclose(s) ==
    /\ sockets[s] \in {"CONNECTING", "OPEN", "CLOSING"}
    /\ sockets' = [sockets EXCEPT ![s] = "CLOSED"]
    /\ timers' = timers \cup {s}
    /\ last' = Step("onclose", NoReq, NoMsg)
    /\ UNCHANGED <<issues, isLoading, error, reqs, server, wsQueue, now, panel,
                   calls, ws, mounted>>

\* Variants: the timer's callback connects whatever the store's ws is,
\* never connects, or connects also when the store's ws is null.
IsCurrent_Always(s) == TRUE
IsCurrent_Never(s) == FALSE
IsCurrent_OrNull(s) == ws = s \/ ws = 0

\* get().ws === ws
IsCurrent(s) == ws = s

\* The callback of the timer set by s's onclose:
\* if (get().ws === ws) { get().connectWebSocket() }
\* History: calls counts the reconnections, up to MaxRetries.
setTimeout_callback(s) ==
    /\ s \in timers
    /\ timers' = timers \ {s}
    /\ IF IsCurrent(s)
       THEN /\ connectWebSocket(timers \ {s})
            /\ calls' = IF calls < MaxRetries THEN calls + 1 ELSE calls
            /\ last' = Step("reconnect", NoReq, NoMsg)
       ELSE /\ UNCHANGED <<ws, sockets, calls>>
            /\ last' = Step("timeout", NoReq, NoMsg)
    /\ UNCHANGED <<issues, isLoading, error, reqs, server, wsQueue, now, panel,
                   mounted>>

\* The application and its push channel: React mounts App, and may run the
\* effect's cleanup and the effect again; the server accepts connections and
\* the network loses them.
NextChannel ==
    \/ \E r \in reqs : srv_list(r)
    \/ \E r \in reqs : fetchIssues_ok(r)
    \/ App_unmount
    \/ App_mount
    \/ \E s \in SocketIds : onopen(s)
    \/ \E s \in SocketIds : onclose(s)
    \/ \E s \in SocketIds : setTimeout_callback(s)

SpecChannel == Init /\ [][NextChannel]_vars

\* The event loop runs every timer callback that is due.
SpecReconnect ==
    SpecChannel /\ \A s \in SocketIds : WF_vars(setTimeout_callback(s))

-----------------------------------------------------------------------------
(* The dependency resolver of src/lib/jsonl.ts and the ready-work view *)

\* Variant: only an open blocker holds an issue back.
StillOpen_OnlyOpen == {"open"}

\* ['open', 'in_progress', 'blocked'].includes(blocker.status)
StillOpen == {"open", "in_progress", "blocked"}

\* Variant: edges of every type count.
blockingDeps_All(issue) == issue.dependencies

\* issue.dependencies?.filter(dep => dep.type === 'blocks') || []
blockingDeps(issue) ==
    SelectSeq(issue.dependencies, LAMBDA dep : dep.type = "blocks")

\* blockingDeps.some(dep => { const blocker = issues.find(...);
\*                            return blocker && [...].includes(blocker.status) })
someBlockerOpen(list, issue) ==
    \E k \in DOMAIN blockingDeps(issue) :
        /\ Exists(list, blockingDeps(issue)[k].depends_on_id)
        /\ Find(list, blockingDeps(issue)[k].depends_on_id).status \in StillOpen

\* Variant: any `blocks` edge holds an issue that is not closed back.
getBlockedIssues_AnyEdge(list) ==
    SelectSeq(list, LAMBDA issue :
        issue.status # "closed" /\ Len(blockingDeps(issue)) > 0)

getReadyIssues(list) ==
    SelectSeq(SelectSeq(list, LAMBDA i : i.status = "open"),
              LAMBDA issue : \/ Len(blockingDeps(issue)) = 0
                             \/ ~someBlockerOpen(list, issue))

getBlockedIssues(list) ==
    SelectSeq(list, LAMBDA issue : IF issue.status = "closed" THEN FALSE
                                   ELSE someBlockerOpen(list, issue))

\* Variant: the comparator without the tie-break.
compareReady_Priority(a, b) == a.priority - b.priority

\* The comparator of ReadyWorkView: priority ascending, then created_at
\* descending.  created_at is the value of new Date(created_at).getTime().
compareReady(a, b) ==
    IF a.priority # b.priority THEN a.priority - b.priority
    ELSE b.created_at - a.created_at

\* Array.prototype.sort is stable: x goes before the first element it does
\* not come after.
RECURSIVE InsertSorted(_, _)
InsertSorted(x, s) ==
    IF s = <<>> THEN <<x>>
    ELSE IF compareReady(x, Head(s)) <= 0 THEN <<x>> \o s
    ELSE <<Head(s)>> \o InsertSorted(x, Tail(s))

RECURSIVE sort(_)
sort(s) == IF s = <<>> THEN <<>> ELSE InsertSorted(Head(s), sort(Tail(s)))

\* sort() orders its receiver in place.  fresh says that the receiver is an
\* array of its own (what filter() returns) and not the store's array.
SortReceiver(fresh, list, store) == IF fresh THEN store ELSE sort(list)

ResolverStep(op, result, before) ==
    [op |-> op, req |-> NoReq, msg |-> NoMsg, result |-> result,
     before |-> before]

\* useMemo(() => getReadyIssues(issues).sort(...), [issues])
ReadyWorkView ==
    /\ issues' = SortReceiver(TRUE, getReadyIssues(issues), issues)
    /\ last' = ResolverStep("ReadyWorkView", sort(getReadyIssues(issues)), issues)
    /\ UNCHANGED <<isLoading, error, reqs, server, wsQueue, now, panel, calls, channel>>

callGetReadyIssues ==
    /\ last' = ResolverStep("getReadyIssues", getReadyIssues(issues), issues)
    /\ UNCHANGED <<issues, isLoading, error, reqs, server, wsQueue, now, panel, calls, channel>>

callGetBlockedIssues ==
    /\ last' = ResolverStep("getBlockedIssues", getBlockedIssues(issues), issues)
    /\ UNCHANGED <<issues, isLoading, error, reqs, server, wsQueue, now, panel, calls, channel>>

\* The snapshots the resolver is applied to: issues a, b and c with every
\* status, a's edges to b, to c and to an id in no record, b's edge back.
MaxPriority == 1
MaxCreatedAt == 2

Extended(rec, priority, created_at) ==
    Spread(rec, [priority |-> priority, created_at |-> created_at])

DepsOfA ==
    {<<>>, <<Dependency("a", "b", "blocks")>>,
     <<Dependency("a", "b", "related")>>,
     <<Dependency("a", "z", "blocks")>>,
     <<Dependency("a", "b", "blocks"), Dependency("a", "c", "blocks")>>}

DepsOfB == {<<>>, <<Dependency("b", "a", "blocks")>>}

Snapshots ==
    {<<Extended(Issue("a", <<"t">>, sa, 0, da), pa, 1),
       Extended(Issue("b", <<"t">>, sb, 0, db), pb, cb),
       Extended(Issue("c", <<"t">>, sc, 0, <<>>), 0, 1)>> :
        sa \in Status, sb \in Status, sc \in {"open", "closed"},
        da \in DepsOfA, db \in DepsOfB,
        pa \in 0..MaxPriority, pb \in 0..MaxPriority, cb \in 1..MaxCreatedAt}

\* The store holding a loaded snapshot.
InitResolver ==
    /\ issues \in Snapshots
    /\ isLoading = FALSE
    /\ error = Null
    /\ reqs = {}
    /\ server = issues
    /\ wsQueue = <<>>
    /\ now = 0
    /\ panel = ClosedPanel
    /\ calls = 0
    /\ last = Step("call", NoReq, NoMsg)
    /\ NoChannel

NextResolver ==
    \/ callGetReadyIssues
    \/ callGetBlockedIssues
    \/ ReadyWorkView

SpecResolver == InitResolver /\ [][NextResolver]_vars

-----------------------------------------------------------------------------
(* The identifier allocator: generateNextIssueId *)

\* In this section an id is the sequence of its characters.
Digits == <<"0", "1", "2", "3", "4", "5", "6", "7", "8", "9">>

\* \d
IsDigit(c) == \E d \in DOMAIN Digits : Digits[d] = c

DigitValue(c) == (CHOOSE d \in DOMAIN Digits : Digits[d] = c) - 1

\* issue.id.match(/(\d+)$/): the run of digits the id ends with, <<>> for
\* no match.
RECURSIVE TrailingDigits(_)
TrailingDigits(id) ==
    IF id # <<>> /\ IsDigit(id[Len(id)])
    THEN Append(TrailingDigits(SubSeq(id, 1, Len(id) - 1)), id[Len(id)])
    ELSE <<>>

\* parseInt(match[1], 10)
RECURSIVE parseInt(_)
parseInt(ds) ==
    IF ds = <<>> THEN 0
    ELSE 10 * parseInt(SubSeq(ds, 1, Len(ds) - 1)) + DigitValue(ds[Len(ds)])

\* issues.map(issue => match ? parseInt(match[1], 10) : 0).filter(id => !isNaN(id))
numericIds(list) ==
    [i \in DOMAIN list |->
        IF TrailingDigits(list[i].id) # <<>>
        THEN parseInt(TrailingDigits(list[i].id)) ELSE 0]

\* Math.max(...numericIds)
RECURSIVE MathMax(_)
MathMax(ns) ==
    IF Len(ns) = 1 THEN ns[1]
    ELSE IF Head(ns) >= MathMax(Tail(ns)) THEN Head(ns) ELSE MathMax(Tail(ns))

\* Variant: the first id decides.
maxId_First(list) == IF Len(list) > 0 THEN numericIds(list)[1] ELSE 0

\* numericIds.length > 0 ? Math.max(...numericIds) : 0
maxId(list) == IF Len(numericIds(list)) > 0 THEN MathMax(numericIds(list)) ELSE 0

\* Variant: the largest number itself, not its successor.
generateNextIssueId_NoIncrement(list) == "BD-" \o ToString(maxId(list))

\* `BD-${maxId + 1}`
generateNextIssueId(list) == "BD-" \o ToString(maxId(list) + 1)

\* The decimal numeral of n.
RECURSIVE Decimal(_)
Decimal(n) ==
    IF n < 10 THEN <<Digits[n + 1]>>
    ELSE Append(Decimal(n \div 10), Digits[(n % 10) + 1])

\* The ids the allocator is applied to: a prefix, then nothing or a numeral
\* with or without a leading zero.  n is the number the numeral spells, -1
\* for none.
MaxIds == 2
MaxNumber == 11
Prefixes == {<<"B", "D", "-">>, <<"t", "-">>, <<"v", "2", "-">>}
Numbers == {0, 9, 10, MaxNumber}

IdPool ==
    {[id |-> p \o z \o Decimal(n), n |-> n] :
        p \in Prefixes, z \in {<<>>, <<"0">>}, n \in Numbers}
    \cup {[id |-> p, n |-> -1] : p \in Prefixes}

IdLists == UNION {[1..k -> IdPool] : k \in 0..MaxIds}

AllocatorStep(op, result, before) ==
    [op |-> op, req |-> NoReq, msg |-> NoMsg, result |-> result,
     before |-> before]

\* A collection whose ids are given, no request in flight.
InitAllocator ==
    /\ issues \in IdLists
    /\ isLoading = FALSE
    /\ error = Null
    /\ reqs = {}
    /\ server = issues
    /\ wsQueue = <<>>
    /\ now = 0
    /\ panel = ClosedPanel
    /\ calls = 0
    /\ last = Step("call", NoReq, NoMsg)
    /\ NoChannel

callGenerateNextIssueId ==
    /\ last' = AllocatorStep("generateNextIssueId", generateNextIssueId(issues),
                             issues)
    /\ UNCHANGED <<issues, isLoading, error, reqs, server, wsQueue, now, panel, calls, channel>>

SpecAllocator == InitAllocator /\ [][callGenerateNextIssueId]_vars

-----------------------------------------------------------------------------
(* Properties of the store *)

Reverted == last.op \in {"updateIssue_revert", "deleteIssue_revert"}
Caught == last.op \in {"updateIssue_catch", "deleteIssue_catch"}

\* C1: when an updateIssue or deleteIssue request comes back with a
\* non-success status and nothing else changed the store in between, the
\* collection is again the one that was there right before the call.
C1_RevertOnFailStatus ==
    (Reverted /\ last.req.quiet) => issues = last.req.prevIssues

\* C1 witness: an update was reverted, no other store change intervened, and
\* the optimistic record had differed from the record of before the call.
C1_Witness ==
    /\ last.op = "updateIssue_revert"
    /\ last.req.quiet
    /\ Exists(issues, last.req.id)
    /\ Find(issues, last.req.id).status # last.req.updates.status
    /\ issues = last.req.prevIssues

\* C2: when the request of an updateIssue or deleteIssue is rejected by the
\* network, the collection is again the one that was there right before the
\* call (stated for the case that nothing else changed the store meanwhile).
C2_RevertOnNetworkError ==
    (Caught /\ last.req.quiet) => issues = last.req.prevIssues

\* C3: once createIssue is confirmed with id Y the store holds exactly one
\* record with id Y and only ids the backend assigned, and it still holds
\* exactly one when the issue:created push for Y is applied after the
\* confirm.
C3_CreateConfirmedOnce ==
    /\ last.op = "createIssue_ok" =>
          /\ Count(issues, last.req.body.id) = 1
          /\ IdsOf(issues) \subseteq IdsOf(server)
    /\ (last.op = "onmessage" /\ last.msg.type = "issue:created"
            /\ last.msg.confirmed) =>
          Count(issues, last.msg.data.id) = 1

\* C3 witness: the confirm arrives after the push for the same creation had
\* already inserted the record.
C3_Witness ==
    /\ last.op = "createIssue_ok"
    /\ last.req.pushed
    /\ Count(issues, last.req.body.id) = 1

\* C4: no two records of the collection have the same id.
C4_UniqueIds ==
    \A i, j \in DOMAIN issues : issues[i].id = issues[j].id => i = j

\* C4 witness: the push of a creation arrives for a record the confirm has
\* inserted already, next to the two loaded records.
C4_Witness ==
    /\ last.op = "onmessage"
    /\ last.msg.type = "issue:created"
    /\ last.msg.confirmed
    /\ Len(issues) = 3

SameRecords(a, b) ==
    /\ IdsOf(a) = IdsOf(b)
    /\ \A id \in IdsOf(a) : Find(a, id) = Find(b, id)

\* The GET of the mount effect is in reqs until the load has completed.
Settled ==
    /\ reqs = {}
    /\ wsQueue = <<>>

\* C6: whenever the initial load is done, nothing is in flight and every
\* broadcast message has been handled, the collection holds exactly the
\* backend's records.
C6_EventualConsistency ==
    Settled => SameRecords(issues, server)

-----------------------------------------------------------------------------
(* Properties of the side panel's dependency handlers *)

AddedDependency == last.op = "handleAddDependency"

\* The (from, to) pairs of the `blocks` edges of a list of issues.
BlocksEdges(list) ==
    UNION {{<<list[i].id, list[i].dependencies[k].depends_on_id>> :
               k \in {k \in DOMAIN list[i].dependencies :
                         list[i].dependencies[k].type = "blocks"}} :
           i \in DOMAIN list}

\* The ids reached from S along at most n edges of E.
RECURSIVE ReachFrom(_, _, _)
ReachFrom(E, S, n) ==
    IF n = 0 THEN S
    ELSE ReachFrom(E, S \cup {e[2] : e \in {e \in E : e[1] \in S}}, n - 1)

Reaches(E, from, to) == to \in ReachFrom(E, {from}, Cardinality(E))

\* C7: when the target A of an added `blocks` edge reaches the panel's issue
\* B along `blocks` edges of the collection (A # B), the add is rejected and
\* B's dependency list stays as it was; and the `blocks` edges between
\* distinct issues of the collection never form a cycle.
C7_BlocksAcyclic ==
    /\ (AddedDependency /\ last.type = "blocks" /\ last.target # panel.issueId
            /\ Reaches(BlocksEdges(issues), last.target, panel.issueId)) =>
          panel.editedIssue.dependencies = last.before.editedIssue.dependencies
    /\ \A e \in BlocksEdges(issues) :
          e[1] # e[2] => ~Reaches(BlocksEdges(issues) \ {e}, e[2], e[1])

\* C8: after add-dependency on issue X with X's own id as the target, X's
\* dependency list holds no edge whose depends_on_id is X's id.
C8_NoSelfDependency ==
    (AddedDependency /\ last.target = panel.issueId) =>
        panel.issueId \notin TargetsOf(panel.editedIssue.dependencies)

OneEdgePerTarget(deps) ==
    \A i, j \in DOMAIN deps : deps[i].depends_on_id = deps[j].depends_on_id => i = j

\* C9: add-dependency with a target the issue already has an edge to, of
\* whatever type, leaves the dependency list unchanged and reports
\* 'Dependency already exists'; the edited list and every issue of the
\* collection hold at most one edge per target id.
C9_DuplicateRejected ==
    /\ (AddedDependency
            /\ last.target \in TargetsOf(last.before.editedIssue.dependencies)) =>
          /\ panel.editedIssue.dependencies = last.before.editedIssue.dependencies
          /\ panel.error = DuplicateMsg
    /\ OneEdgePerTarget(panel.editedIssue.dependencies)
    /\ \A i \in DOMAIN issues : OneEdgePerTarget(issues[i].dependencies)

\* C9 witness: the target is already on the list with another type than the
\* one selected, and the add was rejected: the list is unchanged and the
\* duplicate error is set.
C9_Witness ==
    /\ AddedDependency
    /\ \E i \in DOMAIN last.before.editedIssue.dependencies :
          /\ last.before.editedIssue.dependencies[i].depends_on_id = last.target
          /\ last.before.editedIssue.dependencies[i].type # last.type
    /\ panel.editedIssue.dependencies = last.before.editedIssue.dependencies
    /\ panel.error = DuplicateMsg

AutosaveSettled(step) ==
    /\ step.op \in {"updateIssue_ok", "updateIssue_revert", "updateIssue_catch"}
    /\ step.req.from \in {"backdrop", "escape"}

\* C19: when the updateIssue awaited by a closing gesture (backdrop, X
\* button, Escape) in edit mode settles, the step calls onClose if the save
\* succeeded, whatever message the panel showed when the gesture was made,
\* and leaves the panel as open or closed as it was if the save failed.
C19_AutosaveThenClose ==
    [][AutosaveSettled(last') =>
          IF last'.op = "updateIssue_ok"
          THEN panel'.issueId = NoId
          ELSE panel'.issueId = panel.issueId]_vars

-----------------------------------------------------------------------------
(* Properties of the dependency resolver *)

Elements(s) == {s[i] : i \in DOMAIN s}

BlocksTargets(issue) ==
    {issue.dependencies[k].depends_on_id :
        k \in {k \in DOMAIN issue.dependencies :
                  issue.dependencies[k].type = "blocks"}}

\* C11 as stated: getReadyIssues returns exactly the open issues whose every
\* `blocks` dependency points to an issue of the snapshot that is closed.
C11_ReadyAllBlockersClosed ==
    last.op = "getReadyIssues" =>
        Elements(last.result) =
            {x \in Elements(last.before) :
                /\ x.status = "open"
                /\ \A t \in BlocksTargets(x) :
                      \E y \in Elements(last.before) :
                          y.id = t /\ y.status = "closed"}

\* C11: getReadyIssues returns exactly the open issues none of whose
\* `blocks` dependencies points to an issue of the snapshot that is not
\* closed: a `blocks` dependency on an id that is in no record of the
\* snapshot does not hold an issue back.
C11_ReadyNoOpenBlocker ==
    last.op = "getReadyIssues" =>
        Elements(last.result) =
            {x \in Elements(last.before) :
                /\ x.status = "open"
                /\ \A t \in BlocksTargets(x) :
                      \A y \in Elements(last.before) :
                          y.id = t => y.status = "closed"}

\* C11 witness: the result holds an issue whose only `blocks` edge names an
\* id in no record, and leaves out an open issue that has `blocks` edges.
C11_Witness ==
    /\ last.op = "getReadyIssues"
    /\ \E x \in Elements(last.result) :
          /\ BlocksTargets(x) # {}
          /\ \A t \in BlocksTargets(x) : ~Exists(last.before, t)
    /\ \E x \in Elements(last.before) :
          /\ x.status = "open"
          /\ BlocksTargets(x) # {}
          /\ x \notin Elements(last.result)

\* C12: getBlockedIssues returns exactly the issues that are not closed and
\* have a `blocks` dependency on an issue of the snapshot that is not
\* closed; giving a returned issue another status that is not closed keeps
\* it in the result, and dropping its `blocks` edges takes it out.
C12_BlockedExactly ==
    last.op = "getBlockedIssues" =>
        /\ Elements(last.result) =
              {x \in Elements(last.before) :
                  /\ x.status # "closed"
                  /\ \E t \in BlocksTargets(x) :
                        \E y \in Elements(last.before) :
                            y.id = t /\ y.status # "closed"}
        /\ \A x \in Elements(last.result) :
              /\ \A s \in Status \ {"closed"} :
                    x.id \in IdsOf(getBlockedIssues(
                        MapReplace(last.before, x.id, Spread(x, [status |-> s]))))
              /\ x.id \notin IdsOf(getBlockedIssues(
                     MapReplace(last.before, x.id,
                         Spread(x, [dependencies |->
                             SelectSeq(x.dependencies,
                                       LAMBDA d : d.type # "blocks")]))))

\* C12 witness: the result holds an issue whose own status is in_progress,
\* and leaves out an open issue whose `related` edge points to it.
C12_Witness ==
    /\ last.op = "getBlockedIssues"
    /\ \E x \in Elements(last.result) : x.status = "in_progress"
    /\ \E x \in Elements(last.before) :
          /\ x \notin Elements(last.result)
          /\ x.status = "open"
          /\ \E k \in DOMAIN x.dependencies :
                /\ x.dependencies[k].type = "related"
                /\ Find(last.before, x.dependencies[k].depends_on_id).status
                       = "in_progress"

\* C20: the list ReadyWorkView shows holds the records of
\* getReadyIssues(issues), each once, by priority ascending and, for equal
\* priority, by created_at descending; the store's list is as it was.
C20_ReadyWorkOrder ==
    last.op = "ReadyWorkView" =>
        /\ Len(last.result) = Len(getReadyIssues(last.before))
        /\ Elements(last.result) = Elements(getReadyIssues(last.before))
        /\ \A i, j \in DOMAIN last.result :
              i < j =>
                 \/ last.result[i].priority < last.result[j].priority
                 \/ /\ last.result[i].priority = last.result[j].priority
                    /\ last.result[i].created_at >= last.result[j].created_at
        /\ issues = last.before

\* C20 witness: two ready issues of equal priority are shown in the order
\* opposite to the store's, the newer one first.
C20_Witness ==
    /\ last.op = "ReadyWorkView"
    /\ Len(last.result) >= 2
    /\ last.result # getReadyIssues(last.before)
    /\ last.result[1].priority = last.result[2].priority
    /\ last.result[1].created_at > last.result[2].created_at

-----------------------------------------------------------------------------
(* Properties of the identifier allocator *)

\* The largest of the numbers the ids of the list were built from, 0 when
\* the list is empty or no id ends with a numeral.
LargestNumber(list) ==
    IF \E i \in DOMAIN list : list[i].n >= 0
    THEN CHOOSE m \in {list[i].n : i \in DOMAIN list} :
             \A i \in DOMAIN list : list[i].n <= m
    ELSE 0

\* C13: the allocator returns "BD-" followed by m + 1, m being the largest
\* number any id of the collection ends with, whatever the prefixes, and 0
\* when the collection is empty or no id ends with digits.
C13_NextIdAfterGlobalMax ==
    last.op = "generateNextIssueId" =>
        last.result =
            Str(<<"B", "D", "-">> \o Decimal(LargestNumber(last.before) + 1))

\* C13 witness: the largest number sits on an id whose prefix is not BD-,
\* next to an id without digits at its end.
C13_Witness ==
    /\ last.op = "generateNextIssueId"
    /\ Len(last.before) = 2
    /\ last.before[1].n = -1
    /\ last.before[2].n = 10
    /\ SubSeq(last.before[2].id, 1, 2) = <<"t", "-">>
    /\ last.result = "BD-11"

-----------------------------------------------------------------------------
(* Properties of the push handler and of the error value *)

\* C14: right after an issue:updated message has been applied, applying the
\* same message once more leaves the issue collection as it is (the handler
\* writes nothing else: error and isLoading are not touched).
C14_UpdatedIdempotent ==
    (last.op = "onmessage" /\ last.msg.type = "issue:updated") =>
        Reconcile(issues, last.msg) = issues

\* C14 witness: the message of another writer replaced a record that had
\* differed, so the first application did change the collection.
C14_Witness ==
    /\ last.op = "onmessage"
    /\ last.msg.type = "issue:updated"
    /\ last.msg.of = 0
    /\ Exists(issues, last.msg.data.id)
    /\ Find(issues, last.msg.data.id) = last.msg.data
    /\ last.msg.data.status = "blocked"
    /\ Reconcile(issues, last.msg) = issues

Failed ==
    last.op \in {"createIssue_catch", "updateIssue_revert", "updateIssue_catch",
                 "deleteIssue_revert", "deleteIssue_catch", "fetchIssues_loaded"}

\* C18: right after an issues:refresh message has been handled a GET of the
\* backend's list is in flight and the store is loading, and right after the
\* list of such a reload has arrived the issue collection is that list,
\* record for record.
C18_RefreshReplacesAll ==
    /\ (last.op = "onmessage" /\ last.msg.type = "issues:refresh") =>
          /\ isLoading
          /\ \E r \in reqs :
                r.kind = "list" /\ r.from = "refresh" /\ r.state = "sent"
    /\ (last.op = "fetchIssues_ok" /\ last.req.from = "refresh") =>
          issues = last.req.list

\* C18 witness: the list of a reload arrived after the store had changed
\* during the reload, and the backend has moved on since the list was read.
C18_Witness ==
    /\ last.op = "fetchIssues_ok"
    /\ last.req.from = "refresh"
    /\ ~last.req.quiet
    /\ last.req.list # server
    /\ issues = last.req.list

Succeeded ==
    last.op \in {"createIssue_ok", "updateIssue_ok", "deleteIssue_ok",
                 "fetchIssues_ok"}

\* C17: right after a create, update, close or load has failed the error
\* value is that failure's message, and right after one has completed
\* successfully the error value is null.
C17_ErrorSetThenCleared ==
    /\ Failed => error # Null
    /\ Succeeded => error = Null

-----------------------------------------------------------------------------
(* Properties of the push channel *)

\* Sockets that are connecting or open: close() has not been called on them
\* and they have not closed.
Live == {s \in SocketIds : sockets[s] \in {"CONNECTING", "OPEN"}}

CurrentClosed == ws # 0 /\ sockets[ws] = "CLOSED"

\* C16: whenever the store's current socket has closed, eventually a new
\* connection attempt is under way, unless disconnectWebSocket has cleared
\* the current socket in between; this holds after every close.
C16_ReconnectEventually ==
    CurrentClosed ~> (ws = 0 \/ sockets[ws] = "CONNECTING")

\* C16 witness: the timer's callback has reconnected for the second time.
C16_Witness ==
    /\ last.op = "reconnect"
    /\ calls = MaxRetries
    /\ mounted
    /\ ws # 0
    /\ sockets[ws] = "CONNECTING"

-----------------------------------------------------------------------------
(* Properties of the push handler's record messages *)

Applied(step, type) == step.op = "onmessage" /\ step.msg.type = type

\* C21: right after an issue:updated message carrying R has been applied the
\* collection holds R under R.id, whether or not the id was known before.
C21_UpdatedIsUpsert ==
    Applied(last, "issue:updated") =>
        /\ Exists(issues, last.msg.data.id)
        /\ Find(issues, last.msg.data.id) = last.msg.data

\* C22 as stated: right after an issue:created message has been applied the
\* collection holds exactly one record with the pushed id, and it is the
\* pushed record.
C22_CreatedIsUpsert ==
    Applied(last, "issue:created") =>
        /\ Count(issues, last.msg.data.id) = 1
        /\ Find(issues, last.msg.data.id) = last.msg.data

\* C22, amended: an issue:created message for an id that is in the collection
\* leaves the collection as it is, with exactly one record of that id: the
\* record that was there is kept and the pushed one is dropped.
C22_CreatedKeepsPresent ==
    [][(Applied(last', "issue:created") /\ Exists(issues, last'.msg.data.id)) =>
          /\ issues' = issues
          /\ Count(issues', last'.msg.data.id) = 1]_vars

\* C22 witness: the pushed creation met a record of its id that had been
\* changed since the confirm inserted it.
C22_Witness ==
    /\ Applied(last, "issue:created")
    /\ Count(issues, last.msg.data.id) = 1
    /\ Find(issues, last.msg.data.id) # last.msg.data

-----------------------------------------------------------------------------
(* Properties of closing *)

\* C23: a status change to closed made through updateStatus (a card dropped
\* on the closed column) is sent to the backend as the close request,
\* DELETE /issues/:id, never as a PATCH.
C23_ClosedStatusIsClose ==
    \A r \in reqs :
        (r.from = "kanban" /\ r.updates.status = "closed") => r.kind = "close"

-----------------------------------------------------------------------------
(* Properties of the reconnect timer *)

\* C25: the callback of the timer set when socket s closed creates no socket
\* and leaves the store's ws alone when s is not the store's current socket
\* at that moment; and while ws is null no socket starts connecting except
\* by App's effect calling connectWebSocket again.
C25_StaleTimerConnectsNothing ==
    [][/\ \A s \in timers :
             (s \notin timers' /\ ws # s) => (sockets' = sockets /\ ws' = ws)
       /\ (ws = 0 /\ last'.op # "mount") =>
             \A s \in SocketIds :
                 sockets'[s] = "CONNECTING" => sockets[s] = "CONNECTING"]_vars

\* C25 witness: after the cleanup has disconnected, the timer of the socket
\* that had closed before ran and nothing is connecting or open.
C25_Witness ==
    /\ last.op = "timeout"
    /\ ~mounted
    /\ ws = 0
    /\ timers = {}
    /\ Live = {}

-----------------------------------------------------------------------------
(* Properties of the side panel's save *)

Blank(text) == \A i \in DOMAIN text : IsSpace(text[i])

SaveAttempt(step) == step.op \in {"handleSave", "clickCreate"}

\* C26: a save started from the side panel while the title is empty or all
\* whitespace (backdrop, X button or Escape in edit mode, the Create Issue
\* button in create mode) sends no request and leaves the store's collection
\* and the backend as they are.
C26_BlankTitleSavesNothing ==
    [][(SaveAttempt(last') /\ Blank(panel.editedIssue.title)) =>
          /\ issues' = issues
          /\ reqs' = reqs
          /\ server' = server]_vars

\* C26 witness: closing the panel in edit mode with a whitespace-only title
\* was rejected with the message, the panel stayed open and nothing is in
\* flight.
C26_Witness ==
    /\ last.op = "handleSave"
    /\ ~panel.createMode
    /\ panel.issueId # NoId
    /\ panel.editedIssue.title = <<" ">>
    /\ panel.error = TitleMsg
    /\ reqs = {}
    /\ issues = server

-----------------------------------------------------------------------------
(* Properties of a load that fails *)

\* C27: a load that got neither the backend's list nor the JSONL file ends
\* with error set to a message, isLoading false and the collection the
\* store held before the load's last step.
C27_FailedLoadKeepsCollection ==
    [][(last'.op = "fetchIssues_loaded" /\ last'.req.state = "fail") =>
          /\ error' # Null
          /\ ~isLoading'
          /\ issues' = issues]_vars

-----------------------------------------------------------------------------
(* Properties of the rollback under concurrency *)

\* The records of every id but id, in order.
Others(list, id) == FilterOut(list, id)

\* C28 as stated: the rollback of a failed update or close of X leaves every
\* record of another id as it was right before the rollback.
C28_RollbackTouchesOnlyX ==
    [][last'.op \in {"updateIssue_revert", "deleteIssue_revert"} =>
          Others(issues', last'.req.id) = Others(issues, last'.req.id)]_vars

\* C28, amended: right after the rollback of a failed update or close of X
\* every record of another id is the one of the snapshot taken before the
\* call, whatever push events or other mutations did to it in between.
C28_RollbackRestoresSnapshot ==
    Reverted =>
        Others(issues, last.req.id) = Others(last.req.prevIssues, last.req.id)

\* C28 witness: the rollback put back the older record of another id after
\* the push of that id's change had been applied: nothing is in flight or
\* queued, and the store's record of that id is not the backend's.
C28_Witness ==
    /\ Reverted
    /\ ~last.req.quiet
    /\ reqs = {} /\ wsQueue = <<>>
    /\ \E id \in IdsOf(issues) \cap IdsOf(server) :
          /\ id # last.req.id
          /\ Find(issues, id) = Find(last.req.prevIssues, id)
          /\ Find(issues, id).status = "open"
          /\ Find(server, id).status = "blocked"

-----------------------------------------------------------------------------
(* Properties of the two resolver functions together *)

\* The claim's three parts for a snapshot and the two results over it.
Partitioned(snapshot, ready, blocked) ==
    /\ \A x \in Elements(snapshot) :
          x.status = "open" =>
             (x \in Elements(ready)) # (x \in Elements(blocked))
    /\ \A x \in Elements(ready) \cup Elements(blocked) : x.status # "closed"
    /\ \A x \in Elements(ready) : x.status \notin {"in_progress", "blocked"}

\* C29: over the same snapshot every open issue is in exactly one of
\* getReadyIssues and getBlockedIssues, no closed issue is in either, and no
\* issue that is in progress or blocked is in the ready result.
C29_ReadyBlockedPartition ==
    /\ last.op = "getReadyIssues" =>
          Partitioned(last.before, last.result, getBlockedIssues(last.before))
    /\ last.op = "getBlockedIssues" =>
          Partitioned(last.before, getReadyIssues(last.before), last.result)

\* C29 witness: the ready result holds an open issue whose `blocks` edge
\* names an id that is in no record, and leaves out another open issue, which
\* getBlockedIssues returns.
C29_Witness ==
    /\ last.op = "getReadyIssues"
    /\ \E x \in Elements(last.result) :
          /\ BlocksTargets(x) # {}
          /\ \A t \in BlocksTargets(x) : ~Exists(last.before, t)
    /\ \E y \in Elements(last.before) :
          /\ y.status = "open"
          /\ y \notin Elements(last.result)
          /\ y \in Elements(getBlockedIssues(last.before))

-----------------------------------------------------------------------------
(* Properties of the identifier allocator: freshness *)

\* C30: the id the allocator returns is the id of no record of the
\* collection it was computed from, so inserting a record under that id adds
\* no duplicate id.
C30_NextIdIsFresh ==
    last.op = "generateNextIssueId" =>
        \A i \in DOMAIN last.before : Str(last.before[i].id) # last.result

\* C30 witness: the collection holds BD-10 and BD-011, the numeral of the
\* returned id's predecessor with a leading zero; the allocator returns BD-12.
C30_Witness ==
    /\ last.op = "generateNextIssueId"
    /\ Len(last.before) = 2
    /\ last.before[1].id = <<"B", "D", "-", "1", "0">>
    /\ last.before[2].id = <<"B", "D", "-", "0", "1", "1">>
    /\ last.result = "BD-12"

====
